---- MODULE Spec2Model ----
(***************************************************************************)
(* Model of the external-state reconciliation core of pdf_vertview.py:     *)
(* the tracked-document table of one MainWindow, its watch bookkeeping,    *)
(* the rename recovery driven by QFileSystemWatcher events, and the        *)
(* single-instance rendezvous between processes.                           *)
(***************************************************************************)
EXTENDS Integers, Sequences, FiniteSets, TLC

\* ---------------------------------------------------------------------------
\* Bounds of the model
\* ---------------------------------------------------------------------------
MaxHandles == 3
MaxFsOps == 2
MaxTimers == 2
MaxRefs == 3
MaxPayloadLen == 5
MaxNameLen == 3

\* ---------------------------------------------------------------------------
\* Paths and the filesystem
\* ---------------------------------------------------------------------------
\* Python's None, one per type of value it stands in for
NoPath == "none"
NoHandle == 0
NoStat == [absent |-> TRUE]
NoIdentity == [absent |-> TRUE]
NoListing == <<"OSError">>

Dirs == {"/docs", "/tmp"}
Paths == {"/docs/a.pdf", "/docs/B.PDF", "/docs/c.pdf", "/docs/n.txt",
          "/tmp/x.pdf"}
\* the files other programs touch while the window runs
VolatilePaths == {"/docs/a.pdf", "/docs/B.PDF"}
\* a spelling of /docs/a.pdf that is not in resolved form
RawPaths == Paths \cup {"/docs/./a.pdf"}
\* the paths the user asks the window to open
UserPaths == {"/docs/a.pdf", "/docs/./a.pdf", "/docs/B.PDF"}

\* Path.parent of a resolved path
Parent(p) ==
    IF p \in {"/docs/a.pdf", "/docs/B.PDF", "/docs/c.pdf", "/docs/n.txt"}
    THEN "/docs" ELSE "/tmp"

\* Path.suffix.lower()
SuffixLower(p) ==
    CASE p = "/docs/a.pdf" -> ".pdf"
      [] p = "/docs/B.PDF" -> ".pdf"
      [] p = "/docs/c.pdf" -> ".pdf"
      [] p = "/tmp/x.pdf" -> ".pdf"
      [] OTHER -> ".txt"

\* normalize_path: resolve() removes the "." component, a resolved path is a
\* fixed point
normalize_path(p) == IF p = "/docs/./a.pdf" THEN "/docs/a.pdf" ELSE p

\* the names the user chooses in the save-as dialog
SaveTargets == {"/docs/a.pdf", "/docs/./a.pdf", "/docs/B.PDF", "/tmp/x.pdf"}

\* the paths the window can come to track and watch, hence the paths a
\* fileChanged signal can be for
WatchablePaths == {normalize_path(p) : p \in UserPaths}

\* the same once documents are saved under other names
SavablePaths == {normalize_path(p) : p \in UserPaths \cup SaveTargets}

TOLERANCE_NS == 1000000

\* stat results a file can have on disk
StatA == [st_dev |-> 1, st_ino |-> 11, st_size |-> 1000, st_mtime_ns |-> 5000000]
StatB == [st_dev |-> 1, st_ino |-> 12, st_size |-> 1000, st_mtime_ns |-> 6000000]
StatC == [st_dev |-> 1, st_ino |-> 13, st_size |-> 2000, st_mtime_ns |-> 5000000]
Stats == {StatA, StatB, StatC}
\* the stat result of a file the application has just written
StatSaved == [st_dev |-> 1, st_ino |-> 14, st_size |-> 3000, st_mtime_ns |-> 7000000]

\* FileIdentity.from_path: None (NoIdentity) when stat fails, else the four fields
from_path(disk, p) ==
    IF disk[p] = NoStat THEN NoIdentity
    ELSE [device |-> disk[p].st_dev, inode |-> disk[p].st_ino,
          size |-> disk[p].st_size, mtime_ns |-> disk[p].st_mtime_ns]

Abs(x) == IF x < 0 THEN -x ELSE x

\* a comparison by size and modification time only
matches_by_size_and_time(self, other) ==
    IF self.size # other.size THEN FALSE
    ELSE Abs(self.mtime_ns - other.mtime_ns) <= TOLERANCE_NS

\* FileIdentity.matches
matches(self, other) ==
    LET inode_match == /\ self.inode # 0
                       /\ other.inode # 0
                       /\ self.inode = other.inode
                       /\ self.device = other.device
    IN IF inode_match THEN TRUE
       ELSE IF self.size # other.size THEN FALSE
       ELSE Abs(self.mtime_ns - other.mtime_ns) <= TOLERANCE_NS

\* ---------------------------------------------------------------------------
\* Processes of the application and the rendezvous wire format
\* ---------------------------------------------------------------------------
Procs == {"P", "Q", "R"}

\* the command lines a process is launched with
ArgLists == {<<>>, <<"/docs/./a.pdf", "/docs/B.PDF", "/tmp/x.pdf">>,
             <<"/docs/B.PDF">>}

\* a SingleInstanceHost: the process that built it and which of the two
\* constructions of MainWindow.__init__ it is
NoHost == <<"none", 0>>
\* a client's connection: pending or closed at its host, the bytes the host
\* can read, and the list whose bytes reached the host before it closed
NoConn == [state |-> "none", host |-> NoHost, buf |-> <<>>, arrived |-> <<>>]

\* str(Path(p)): pathlib drops "." components
PathStr(p) == IF p = "/docs/./a.pdf" THEN "/docs/a.pdf" ELSE p

\* JSON text as its sequence of tokens
LB == <<"[", "">>
RB == <<"]", "">>
COMMA == <<",", "">>
StrTok(text) == <<"str", text>>
IsScalar(tok) == tok[1] \in {"str", "num"}

\* json.dumps of a list of strings
RECURSIVE dumps_items(_, _)
dumps_items(list, i) ==
    IF i > Len(list) THEN <<>>
    ELSE (IF i > 1 THEN <<COMMA>> ELSE <<>>) \o <<StrTok(list[i])>>
             \o dumps_items(list, i + 1)

json_dumps(list) == <<LB>> \o dumps_items(list, 1) \o <<RB>>

\* json.loads: ok is FALSE when the text is not JSON (the call raises);
\* is_list tells an array from a scalar; items are the array's elements
json_loads(text) ==
    LET n == Len(text)
        inner == SubSeq(text, 2, n - 1)
        m == n - 2
    IN IF n = 1 /\ IsScalar(text[1])
       THEN [ok |-> TRUE, is_list |-> FALSE, items |-> <<>>]
       ELSE IF n >= 2 /\ text[1] = LB /\ text[n] = RB
               /\ (m = 0 \/ (/\ m % 2 = 1
                             /\ \A i \in 1..m :
                                  IF i % 2 = 1 THEN IsScalar(inner[i])
                                  ELSE inner[i] = COMMA))
       THEN [ok |-> TRUE, is_list |-> TRUE,
             items |-> [k \in 1..((m + 1) \div 2) |-> inner[2 * k - 1]]]
       ELSE [ok |-> FALSE, is_list |-> FALSE, items |-> <<>>]

\* ---------------------------------------------------------------------------
\* dict helpers (a dict is a function whose DOMAIN is its key set)
\* ---------------------------------------------------------------------------
EmptyDict == [k \in {} |-> 0]
Put(d, k, v) == [x \in DOMAIN d \cup {k} |-> IF x = k THEN v ELSE d[x]]
Pop(d, k) == [x \in DOMAIN d \ {k} |-> d[x]]
Get(d, k, default) == IF k \in DOMAIN d THEN d[k] ELSE default
Remove(seq, k) == SelectSeq(seq, LAMBDA e : e # k)

\* ---------------------------------------------------------------------------
\* State of one MainWindow, of the filesystem and of the event loop
\* ---------------------------------------------------------------------------
VARIABLES
    fs,              \* path -> stat result, or NoStat when the path is absent
    fsOps,           \* number of filesystem changes made so far
    documents,       \* MainWindow._documents: path -> document handle
    docOrder,        \* insertion order of the keys of _documents
    tab_items,       \* MainWindow._tab_items: path -> handle shown by the item
    doc_identities,  \* MainWindow._doc_identities: path -> FileIdentity
    tab_recency,     \* keys of MainWindow._tab_recency
    watched_files,   \* MainWindow._watched_files
    watched_dirs,    \* MainWindow._watched_dirs: directory -> count
    watcher,         \* paths registered with the QFileSystemWatcher
    closeCount,      \* handle -> number of close() calls on it
    nextHandle,      \* next handle fitz.open hands out
    timers,          \* pending QTimer.singleShot callbacks, in firing order
    log,             \* what the last handler did: scans, opens, closes, calls
    lastOp,          \* the last handler that ran and its argument
    recoveredFrom,   \* paths a document was re-keyed away from
    closedByUser,    \* paths whose document the user closed
    pc,              \* per process: where it is in main()
    argv,            \* per process: sys.argv[1:]
    same_window,     \* per process: the behavior/open_in_same_window setting
    forwarded,       \* per process: how forward_paths_to_primary ended
    liveAtConnect,   \* per process: a live server held the name at connect
    endpoint,        \* the host registered under SINGLE_INSTANCE_SERVER
    listening,       \* hosts whose QLocalServer listens (_server is not None)
    conn,            \* per client process: its connection to a host
    emitted,         \* per client process: open_requested lists raised for it
    opened,          \* per process: paths its own window was asked to open
    reclaimed,       \* processes that took the name over from a dead holder
    call,            \* a function of the program and the arguments it is given
    ret              \* the value the call returned, once it has returned

winVars == <<documents, docOrder, tab_items, doc_identities, tab_recency,
             watched_files, watched_dirs, watcher, closeCount, nextHandle>>

fnVars == <<call, ret>>

rvVars == <<pc, argv, same_window, forwarded, liveAtConnect, endpoint,
            listening, conn, emitted, opened, reclaimed>>

\* the window's fields as one record, so that a handler's calls compose
Win == [documents |-> documents, docOrder |-> docOrder, tab_items |-> tab_items,
        doc_identities |-> doc_identities, tab_recency |-> tab_recency,
        watched_files |-> watched_files, watched_dirs |-> watched_dirs,
        watcher |-> watcher, closeCount |-> closeCount,
        nextHandle |-> nextHandle, log |-> <<>>]

Logged(w, entry) == [w EXCEPT !.log = Append(@, entry)]

\* ---------------------------------------------------------------------------
\* Watch bookkeeping
\* ---------------------------------------------------------------------------
\* an add that registers the file with the native watcher on every call
add_watch_unguarded(w, path) ==
    LET normalized == normalize_path(path)
        w1 == [Logged(w, <<"addPath", normalized>>) EXCEPT
                 !.watcher = @ \cup {normalized},
                 !.watched_files = @ \cup {normalized}]
        directory == Parent(normalized)
        count == Get(w1.watched_dirs, directory, 0)
        w2 == IF count = 0
              THEN [Logged(w1, <<"addPath", directory>>) EXCEPT
                      !.watcher = @ \cup {directory}]
              ELSE w1
    IN [w2 EXCEPT !.watched_dirs = Put(@, directory, count + 1)]

\* MainWindow._add_watch
add_watch(w, path) ==
    LET normalized == normalize_path(path)
        w1 == IF normalized \notin w.watched_files
              THEN [Logged(w, <<"addPath", normalized>>) EXCEPT
                      !.watcher = @ \cup {normalized},
                      !.watched_files = @ \cup {normalized}]
              ELSE w
        directory == Parent(normalized)
        count == Get(w1.watched_dirs, directory, 0)
        w2 == IF count = 0
              THEN [Logged(w1, <<"addPath", directory>>) EXCEPT
                      !.watcher = @ \cup {directory}]
              ELSE w1
    IN [w2 EXCEPT !.watched_dirs = Put(@, directory, count + 1)]

\* a removal that keeps the directory until its count is negative
remove_watch_late(w, path) ==
    LET normalized == normalize_path(path)
        w1 == IF normalized \in w.watched_files
              THEN [Logged(w, <<"removePath", normalized>>) EXCEPT
                      !.watcher = @ \ {normalized},
                      !.watched_files = @ \ {normalized}]
              ELSE w
        directory == Parent(normalized)
        count == Get(w1.watched_dirs, directory, 0) - 1
    IN IF count < 0
       THEN [Logged(w1, <<"removePath", directory>>) EXCEPT
               !.watched_dirs = Pop(@, directory),
               !.watcher = @ \ {directory}]
       ELSE [w1 EXCEPT !.watched_dirs = Put(@, directory, count)]

\* MainWindow._remove_watch
remove_watch(w, path) ==
    LET normalized == normalize_path(path)
        w1 == IF normalized \in w.watched_files
              THEN [Logged(w, <<"removePath", normalized>>) EXCEPT
                      !.watcher = @ \ {normalized},
                      !.watched_files = @ \ {normalized}]
              ELSE w
        directory == Parent(normalized)
        count == Get(w1.watched_dirs, directory, 0) - 1
    IN IF count <= 0
       THEN [Logged(w1, <<"removePath", directory>>) EXCEPT
               !.watched_dirs = Pop(@, directory),
               !.watcher = @ \ {directory}]
       ELSE [w1 EXCEPT !.watched_dirs = Put(@, directory, count)]

\* ---------------------------------------------------------------------------
\* The tracked-document table
\* ---------------------------------------------------------------------------
\* MainWindow._update_document_identity
update_document_identity(w, disk, path) ==
    LET normalized == normalize_path(path)
        identity == from_path(disk, normalized)
    IN IF identity # NoIdentity
       THEN [w EXCEPT !.doc_identities = Put(@, normalized, identity)]
       ELSE w

\* PdfDocument.close, called on a handle
close_document(w, h) ==
    [Logged(w, <<"close", h>>) EXCEPT !.closeCount = Put(@, h, Get(@, h, 0) + 1)]

\* a cleanup that leaves the tab item and the recency entry behind
cleanup_keeping_item(w, path) ==
    LET normalized == normalize_path(path)
        document == Get(w.documents, normalized, NoHandle)
        w1 == [w EXCEPT !.documents = Pop(@, normalized),
                        !.docOrder = Remove(@, normalized)]
        w2 == IF document # NoHandle THEN close_document(w1, document) ELSE w1
        w3 == [w2 EXCEPT !.doc_identities = Pop(@, normalized)]
    IN remove_watch(w3, normalized)

\* a cleanup that drops the entry without closing its handle
cleanup_without_close(w, path) ==
    LET normalized == normalize_path(path)
        w1 == [w EXCEPT !.documents = Pop(@, normalized),
                        !.docOrder = Remove(@, normalized),
                        !.tab_items = Pop(@, normalized),
                        !.doc_identities = Pop(@, normalized),
                        !.tab_recency = @ \ {normalized}]
    IN remove_watch(w1, normalized)

\* MainWindow._cleanup_document_path (close_document defaults to True)
cleanup_document_path(w, path) ==
    LET normalized == normalize_path(path)
        document == Get(w.documents, normalized, NoHandle)
        w1 == [w EXCEPT !.documents = Pop(@, normalized),
                        !.docOrder = Remove(@, normalized)]
        w2 == IF document # NoHandle THEN close_document(w1, document) ELSE w1
        w3 == [w2 EXCEPT !.tab_items = Pop(@, normalized),
                         !.doc_identities = Pop(@, normalized),
                         !.tab_recency = @ \ {normalized}]
    IN remove_watch(w3, normalized)

\* an addition to the table that registers no watch
add_document_to_ui_unwatched(w, disk, document, normalized) ==
    IF normalized \in DOMAIN w.documents THEN w
    ELSE LET w1 == [w EXCEPT !.documents = Put(@, normalized, document),
                             !.docOrder = Append(@, normalized),
                             !.tab_items = Put(@, normalized, document)]
             w3 == update_document_identity(w1, disk, normalized)
         IN [w3 EXCEPT !.tab_recency = @ \cup {normalized}]

\* MainWindow._add_document_to_ui
add_document_to_ui(w, disk, document, normalized) ==
    IF normalized \in DOMAIN w.documents THEN w
    ELSE LET w1 == [w EXCEPT !.documents = Put(@, normalized, document),
                             !.docOrder = Append(@, normalized),
                             !.tab_items = Put(@, normalized, document)]
             w2 == add_watch(w1, normalized)
             w3 == update_document_identity(w2, disk, normalized)
         IN [w3 EXCEPT !.tab_recency = @ \cup {normalized}]

\* a creation that hands out a document whether or not the file opens
create_pdf_document_regardless(w, disk, path, opens) ==
    [win |-> [Logged(w, <<"open", w.nextHandle, path>>) EXCEPT
                !.nextHandle = @ + 1],
     document |-> w.nextHandle]

\* MainWindow._create_pdf_document: fitz.open raises when the file is absent;
\* opens says whether fitz.open, the password dialog and the thumbnail succeed.
\* Returns the window (its handle counter advanced) and the document or None.
create_pdf_document(w, disk, path, opens) ==
    IF disk[path] = NoStat \/ ~opens
    THEN [win |-> w, document |-> NoHandle]
    ELSE [win |-> [Logged(w, <<"open", w.nextHandle, path>>) EXCEPT
                     !.nextHandle = @ + 1],
          document |-> w.nextHandle]

\* MainWindow.open_document_from_path
open_document_from_path(w, disk, path, opens) ==
    LET normalized == normalize_path(path) IN
    IF normalized \in DOMAIN w.documents THEN w
    ELSE LET created == create_pdf_document(w, disk, normalized, opens) IN
         IF created.document = NoHandle THEN created.win
         ELSE add_document_to_ui(created.win, disk, created.document, normalized)

\* ---------------------------------------------------------------------------
\* Rename recovery
\* ---------------------------------------------------------------------------
\* directory.iterdir(): the existing entries of the directory, in the order
\* the filesystem lists them (order is the listing order of all paths)
iterdir(disk, directory, order) ==
    SelectSeq(order, LAMBDA p : Parent(p) = directory /\ disk[p] # NoStat)

\* the loop of MainWindow._find_identity_match from entry i on
RECURSIVE find_loop(_, _, _, _, _, _)
find_loop(disk, entries, i, identity, exclude, fallback) ==
    IF i > Len(entries) THEN fallback
    ELSE LET entry == entries[i]
             candidate_identity == from_path(disk, entry)
         IN IF entry = exclude \/ SuffixLower(entry) # ".pdf"
            THEN find_loop(disk, entries, i + 1, identity, exclude, fallback)
            ELSE IF candidate_identity = NoIdentity
            THEN find_loop(disk, entries, i + 1, identity, exclude, fallback)
            ELSE IF matches(identity, candidate_identity) THEN entry
            ELSE IF /\ fallback = NoPath
                    /\ identity.size = candidate_identity.size
                    /\ Abs(identity.mtime_ns - candidate_identity.mtime_ns)
                         <= TOLERANCE_NS
            THEN find_loop(disk, entries, i + 1, identity, exclude, entry)
            ELSE find_loop(disk, entries, i + 1, identity, exclude, fallback)

\* a scan that reads the directory again when the listing raises OSError
find_despite_oserror(disk, directory, identity, exclude, listing) ==
    find_loop(disk,
              iterdir(disk, directory,
                      IF listing = NoListing
                      THEN <<"/docs/a.pdf", "/docs/B.PDF", "/docs/c.pdf",
                             "/docs/n.txt", "/tmp/x.pdf">>
                      ELSE listing),
              1, identity, exclude, NoPath)

\* a scan that takes the first other .pdf entry, whatever its identity
find_first_pdf(disk, directory, identity, exclude, listing) ==
    IF listing = NoListing THEN NoPath
    ELSE LET entries == SelectSeq(iterdir(disk, directory, listing),
                                  LAMBDA e : e # exclude /\ SuffixLower(e) = ".pdf")
         IN IF entries = <<>> THEN NoPath ELSE entries[1]

\* MainWindow._find_identity_match; listing is NoListing when iterdir raises
\* OSError, else the listing order
find_identity_match(disk, directory, identity, exclude, listing) ==
    IF listing = NoListing THEN NoPath
    ELSE find_loop(disk, iterdir(disk, directory, listing), 1, identity,
                   exclude, NoPath)

\* a re-association that keeps the entry of the old path when the new path
\* is tracked already
handle_document_renamed_keeping_old(w, disk, old_path, new_path, opens) ==
    LET item == Get(w.tab_items, old_path, NoHandle)
        document == Get(w.documents, old_path, NoHandle)
        normalized_new == normalize_path(new_path)
    IN IF item = NoHandle \/ document = NoHandle THEN w
       ELSE IF normalized_new \in DOMAIN w.documents
       THEN Logged(w, <<"renamed", old_path, normalized_new>>)
       ELSE open_document_from_path(
                cleanup_document_path(
                    Logged(w, <<"renamed", old_path, normalized_new>>), old_path),
                disk, normalized_new, opens)

\* MainWindow._handle_document_renamed
handle_document_renamed(w, disk, old_path, new_path, opens) ==
    LET item == Get(w.tab_items, old_path, NoHandle)
        document == Get(w.documents, old_path, NoHandle)
        normalized_new == normalize_path(new_path)
    IN IF item = NoHandle \/ document = NoHandle THEN w
       ELSE IF normalized_new \in DOMAIN w.documents
       THEN cleanup_document_path(
                Logged(w, <<"renamed", old_path, normalized_new>>), old_path)
       ELSE open_document_from_path(
                cleanup_document_path(
                    Logged(w, <<"renamed", old_path, normalized_new>>), old_path),
                disk, normalized_new, opens)

\* an attempt that does not re-validate when it fires
never_revalidated(w, normalized) == TRUE

\* the re-validation at fire time: the two early returns of
\* MainWindow._attempt_recover_renamed_file (not tracked, no stored identity)
still_tracked(w, normalized) ==
    /\ normalized \in DOMAIN w.documents
    /\ normalized \in DOMAIN w.doc_identities

\* MainWindow._attempt_recover_renamed_file; inp holds what the attempt reads
\* from outside: the directory listing and whether a re-open succeeds
attempt_recover_renamed_file(w, disk, old_path, inp) ==
    LET normalized == normalize_path(old_path) IN
    IF ~still_tracked(w, normalized) THEN w
    ELSE LET identity == Get(w.doc_identities, normalized, NoIdentity)
             directory == Parent(normalized)
             w1 == Logged(w, <<"scan", normalized,
                              IF inp.listing = NoListing THEN "OSError"
                              ELSE "listed">>)
             candidate == IF identity = NoIdentity THEN NoPath
                          ELSE find_identity_match(disk, directory, identity,
                                                   normalized, inp.listing)
         IN IF candidate = NoPath THEN w1
            ELSE IF normalize_path(candidate) = normalized THEN w1
            ELSE handle_document_renamed(w1, disk, normalized,
                                         normalize_path(candidate), inp.opens)

\* trigger_recovery: the attempts of one timer callback, in list order
RECURSIVE trigger_recovery(_, _, _, _, _)
trigger_recovery(w, disk, paths, i, inps) ==
    IF i > Len(paths) THEN w
    ELSE trigger_recovery(
             attempt_recover_renamed_file(w, disk, paths[i], inps[i]),
             disk, paths, i + 1, inps)

\* ---------------------------------------------------------------------------
\* Handlers of the window
\* ---------------------------------------------------------------------------
\* MainWindow.close_current_document, the current item being the tab of path
close_current_document(w, path) ==
    IF path \notin DOMAIN w.tab_items THEN w
    ELSE cleanup_document_path(w, normalize_path(path))

\* PdfDocument.save_as: the document is written to the destination, which
\* then has the stat result st
save_as(disk, destination, st) == [disk EXCEPT ![normalize_path(destination)] = st]

\* MainWindow._save_document_as for the tracked document of old_path, from
\* the successful document.save_as(target_path) on: the window and the
\* filesystem afterwards. delete_original is the window's
\* _delete_original_on_save_as setting.
save_document_as(w, disk, old_path, target_path, st, opens, delete_original) ==
    LET new_path_normalized == normalize_path(target_path)
        saved == save_as(disk, target_path, st)
    IN IF new_path_normalized # old_path
       THEN [win |-> handle_document_renamed(w, saved, old_path,
                                             new_path_normalized, opens),
             disk |-> IF delete_original /\ saved[old_path] # NoStat
                      THEN [saved EXCEPT ![old_path] = NoStat]
                      ELSE saved]
       ELSE [win |-> update_document_identity(w, saved, old_path),
             disk |-> saved]

\* a file-changed handler without the membership check
file_changed_unchecked(w, disk, path_str) ==
    LET path == normalize_path(path_str) IN
    IF disk[path] # NoStat
    THEN [win |-> update_document_identity(w, disk, path), timer |-> <<>>]
    ELSE [win |-> w, timer |-> <<path>>]

\* MainWindow._handle_watched_file_changed: the window after the handler and
\* the timer callback it schedules (<<>> when none)
handle_watched_file_changed(w, disk, path_str) ==
    LET path == normalize_path(path_str) IN
    IF path \notin DOMAIN w.documents THEN [win |-> w, timer |-> <<>>]
    ELSE IF disk[path] # NoStat
    THEN [win |-> update_document_identity(w, disk, path), timer |-> <<>>]
    ELSE [win |-> w, timer |-> <<path>>]

\* MainWindow._handle_watched_directory_changed: the list of missing documents
\* the scheduled callback will try to recover (<<>> when nothing is scheduled)
handle_watched_directory_changed(w, disk, directory_str) ==
    SelectSeq(w.docOrder,
              LAMBDA doc_path : Parent(doc_path) = directory_str
                                /\ disk[doc_path] = NoStat)

\* ---------------------------------------------------------------------------
\* Actions
\* ---------------------------------------------------------------------------
RECURSIVE Perms(_)
Perms(S) ==
    IF S = {} THEN {<<>>}
    ELSE UNION {{<<x>> \o q : q \in Perms(S \ {x})} : x \in S}

\* what iterdir can give for a directory: OSError or its entries in some order
Listings(disk, directory) ==
    {NoListing} \cup
        Perms({p \in Paths : Parent(p) = directory /\ disk[p] # NoStat})

AttemptInputs(disk, path) ==
    [listing : Listings(disk, Parent(path)), opens : BOOLEAN]

\* the re-associations (old path, new path) noted in a handler's log
RenamedPairs(l) ==
    {<<l[i][2], l[i][3]>> : i \in {j \in 1..Len(l) : l[j][1] = "renamed"}}

\* the last step: a handler of the window (with the path a signal or a close
\* is for, or the paths a callback was scheduled with), or a change of the
\* filesystem
Op(name, path, paths) == [op |-> name, path |-> path, paths |-> paths]

\* the handler's result becomes the window's state
Commit(w, op) ==
    /\ w.nextHandle <= MaxHandles + 1
    /\ documents' = w.documents
    /\ docOrder' = w.docOrder
    /\ tab_items' = w.tab_items
    /\ doc_identities' = w.doc_identities
    /\ tab_recency' = w.tab_recency
    /\ watched_files' = w.watched_files
    /\ watched_dirs' = w.watched_dirs
    /\ watcher' = w.watcher
    /\ closeCount' = w.closeCount
    /\ nextHandle' = w.nextHandle
    /\ log' = w.log
    /\ lastOp' = op
    /\ recoveredFrom' =
          (recoveredFrom \cup
              {pr[1] : pr \in {q \in RenamedPairs(w.log) : q[2] \in DOMAIN w.documents}})
             \ DOMAIN w.documents
    /\ closedByUser' =
          (closedByUser \cup (IF op.op = "close" THEN {op.path} ELSE {}))
             \ DOMAIN w.documents

\* the user opens a path (dialog, drop, command line, forwarded request)
Open(raw, opens) ==
    /\ Commit(open_document_from_path(Win, fs, raw, opens),
              Op("open", NoPath, <<>>))
    /\ UNCHANGED <<fs, fsOps, timers, rvVars, fnVars>>

\* the user closes the tab of a tracked document
Close(path) ==
    /\ path \in DOMAIN tab_items
    /\ Commit(close_current_document(Win, path), Op("close", path, <<>>))
    /\ UNCHANGED <<fs, fsOps, timers, rvVars, fnVars>>

\* QFileSystemWatcher.fileChanged is delivered for a path the window has
\* watched (a signal can be stale: queued before the path was unwatched)
FileChanged(path) ==
    /\ LET r == handle_watched_file_changed(Win, fs, path) IN
       /\ r.timer # <<>> => Len(timers) < MaxTimers
       /\ timers' = IF r.timer # <<>> THEN Append(timers, r.timer) ELSE timers
       /\ Commit(r.win, Op("fileChanged", path, <<>>))
    /\ UNCHANGED <<fs, fsOps, rvVars, fnVars>>

\* QFileSystemWatcher.directoryChanged is delivered for a directory
DirectoryChanged(directory) ==
    /\ LET missing == handle_watched_directory_changed(Win, fs, directory) IN
       /\ missing # <<>> => Len(timers) < MaxTimers
       /\ timers' = IF missing # <<>> THEN Append(timers, missing) ELSE timers
       /\ Commit(Win, Op("directoryChanged", NoPath, <<>>))
    /\ UNCHANGED <<fs, fsOps, rvVars, fnVars>>

\* the oldest pending singleShot callback fires
TimerFires ==
    /\ timers # <<>>
    /\ LET paths == Head(timers) IN
       \E inps \in [1..Len(paths) -> UNION {AttemptInputs(fs, p) : p \in Paths}] :
          /\ \A i \in 1..Len(paths) : inps[i] \in AttemptInputs(fs, paths[i])
          /\ Commit(trigger_recovery(Win, fs, paths, 1, inps),
                    Op("timer", NoPath, paths))
    /\ timers' = Tail(timers)
    /\ UNCHANGED <<fs, fsOps, rvVars, fnVars>>

\* the user saves a tracked document under a name chosen in the dialog; the
\* save itself succeeds (a cancelled dialog or a failed save changes nothing)
SaveAs(path, target, st, opens, delete_original) ==
    /\ path \in DOMAIN documents
    /\ fsOps < MaxFsOps
    /\ LET r == save_document_as(Win, fs, path, target, st, opens,
                                 delete_original) IN
       /\ fs' = r.disk
       /\ Commit(r.win, Op("saveAs", NoPath, <<>>))
    /\ fsOps' = fsOps + 1
    /\ UNCHANGED <<timers, rvVars, fnVars>>

\* another program changes the filesystem
FsStep(path, disk) ==
    /\ fsOps < MaxFsOps
    /\ fs' = disk
    /\ fsOps' = fsOps + 1
    /\ log' = <<>>
    /\ lastOp' = Op("fs", NoPath, <<>>)
    /\ UNCHANGED <<winVars, timers, recoveredFrom, closedByUser, rvVars, fnVars>>

FsDelete(path) ==
    /\ fs[path] # NoStat
    /\ FsStep(path, [fs EXCEPT ![path] = NoStat])

FsCreate(path, st) ==
    /\ fs[path] = NoStat
    /\ FsStep(path, [fs EXCEPT ![path] = st])

FsRename(src, dst) ==
    /\ fs[src] # NoStat
    /\ src # dst
    /\ FsStep(src, [fs EXCEPT ![dst] = fs[src], ![src] = NoStat])

FsModify(path, st) ==
    /\ fs[path] # NoStat
    /\ fs[path] # st
    /\ FsStep(path, [fs EXCEPT ![path] = st])

vars == <<fs, fsOps, winVars, timers, log, lastOp, recoveredFrom, closedByUser,
          rvVars, fnVars>>

\* no function is being applied on its own
NoCall == [fn |-> "none"]
NoRet == [done |-> FALSE]

\* the state after construction of the window, before any process runs
InitProgram ==
    /\ fs = [p \in Paths |->
               CASE p = "/docs/a.pdf" -> StatA
                 [] p = "/docs/B.PDF" -> NoStat
                 [] p = "/docs/c.pdf" -> NoStat
                 [] p = "/docs/n.txt" -> StatB
                 [] OTHER -> StatC]
    /\ fsOps = 0
    /\ documents = EmptyDict
    /\ docOrder = <<>>
    /\ tab_items = EmptyDict
    /\ doc_identities = EmptyDict
    /\ tab_recency = {}
    /\ watched_files = {}
    /\ watched_dirs = EmptyDict
    /\ watcher = {}
    /\ closeCount = EmptyDict
    /\ nextHandle = 1
    /\ timers = <<>>
    /\ log = <<>>
    /\ lastOp = Op("init", NoPath, <<>>)
    /\ recoveredFrom = {}
    /\ closedByUser = {}
    /\ pc = [p \in Procs |-> "idle"]
    /\ argv = [p \in Procs |-> <<>>]
    /\ same_window = [p \in Procs |-> TRUE]
    /\ forwarded = [p \in Procs |-> "none"]
    /\ liveAtConnect = [p \in Procs |-> FALSE]
    /\ endpoint = NoHost
    /\ listening = {}
    /\ conn = [p \in Procs |-> NoConn]
    /\ emitted = [p \in Procs |-> <<>>]
    /\ opened = [p \in Procs |-> <<>>]
    /\ reclaimed = {}

Init == InitProgram /\ call = NoCall /\ ret = NoRet

Next ==
    \/ \E raw \in UserPaths, opens \in BOOLEAN : Open(raw, opens)
    \/ \E path \in WatchablePaths : Close(path)
    \/ \E path \in WatchablePaths : FileChanged(path)
    \/ \E directory \in Dirs : DirectoryChanged(directory)
    \/ TimerFires
    \/ \E path \in VolatilePaths : FsDelete(path)
    \/ \E path \in VolatilePaths, st \in Stats : FsCreate(path, st)
    \/ \E src \in VolatilePaths, dst \in VolatilePaths : FsRename(src, dst)
    \/ \E path \in VolatilePaths, st \in Stats : FsModify(path, st)

Spec == Init /\ [][Next]_vars

\* ---------------------------------------------------------------------------
\* The window with save-as: the user opens, closes and saves documents under
\* other names, possibly in another directory, while files are renamed and
\* deleted under it
\* ---------------------------------------------------------------------------
NextSaveAs ==
    \/ \E raw \in UserPaths, opens \in BOOLEAN : Open(raw, opens)
    \/ \E path \in SavablePaths : Close(path)
    \/ \E path \in SavablePaths : FileChanged(path)
    \/ \E directory \in Dirs : DirectoryChanged(directory)
    \/ TimerFires
    \/ \E path \in SavablePaths, target \in SaveTargets, st \in {StatSaved},
          opens \in BOOLEAN, delete_original \in BOOLEAN :
          SaveAs(path, target, st, opens, delete_original)
    \/ \E path \in VolatilePaths : FsDelete(path)
    \/ \E src \in VolatilePaths, dst \in VolatilePaths : FsRename(src, dst)

SpecSaveAs == Init /\ [][NextSaveAs]_vars

\* ---------------------------------------------------------------------------
\* The retry of an unresolved document: the window has opened /docs/a.pdf,
\* the file has gone and the scan of the directory has found no candidate.
\* From there files appear, signals are delivered and callbacks fire; the
\* event loop runs every pending singleShot callback.
\* ---------------------------------------------------------------------------
InitialDisk ==
    [p \in Paths |-> CASE p = "/docs/a.pdf" -> StatA
                       [] p = "/docs/B.PDF" -> NoStat
                       [] p = "/docs/c.pdf" -> NoStat
                       [] p = "/docs/n.txt" -> StatB
                       [] OTHER -> StatC]

NewWindow ==
    [documents |-> EmptyDict, docOrder |-> <<>>, tab_items |-> EmptyDict,
     doc_identities |-> EmptyDict, tab_recency |-> {}, watched_files |-> {},
     watched_dirs |-> EmptyDict, watcher |-> {}, closeCount |-> EmptyDict,
     nextHandle |-> 1, log |-> <<>>]

UnresolvedDisk == [InitialDisk EXCEPT !["/docs/a.pdf"] = NoStat]

UnresolvedWindow ==
    LET opened_a == open_document_from_path(NewWindow, InitialDisk,
                                            "/docs/a.pdf", TRUE)
    IN attempt_recover_renamed_file(
           [opened_a EXCEPT !.log = <<>>], UnresolvedDisk, "/docs/a.pdf",
           [listing |-> <<"/docs/n.txt">>, opens |-> TRUE])

InitRetry ==
    /\ fs = UnresolvedDisk
    /\ fsOps = 1
    /\ documents = UnresolvedWindow.documents
    /\ docOrder = UnresolvedWindow.docOrder
    /\ tab_items = UnresolvedWindow.tab_items
    /\ doc_identities = UnresolvedWindow.doc_identities
    /\ tab_recency = UnresolvedWindow.tab_recency
    /\ watched_files = UnresolvedWindow.watched_files
    /\ watched_dirs = UnresolvedWindow.watched_dirs
    /\ watcher = UnresolvedWindow.watcher
    /\ closeCount = UnresolvedWindow.closeCount
    /\ nextHandle = UnresolvedWindow.nextHandle
    /\ timers = <<>>
    /\ log = UnresolvedWindow.log
    /\ lastOp = Op("timer", NoPath, <<"/docs/a.pdf">>)
    /\ recoveredFrom = {}
    /\ closedByUser = {}
    /\ pc = [p \in Procs |-> "idle"]
    /\ argv = [p \in Procs |-> <<>>]
    /\ same_window = [p \in Procs |-> TRUE]
    /\ forwarded = [p \in Procs |-> "none"]
    /\ liveAtConnect = [p \in Procs |-> FALSE]
    /\ endpoint = NoHost
    /\ listening = {}
    /\ conn = [p \in Procs |-> NoConn]
    /\ emitted = [p \in Procs |-> <<>>]
    /\ opened = [p \in Procs |-> <<>>]
    /\ reclaimed = {}
    /\ call = NoCall
    /\ ret = NoRet

NextRetry ==
    \/ \E path \in WatchablePaths : FileChanged(path)
    \/ \E directory \in Dirs : DirectoryChanged(directory)
    \/ TimerFires
    \/ \E path \in VolatilePaths, st \in Stats : FsCreate(path, st)

SpecRetry == InitRetry /\ [][NextRetry]_vars /\ WF_vars(TimerFires)

\* ---------------------------------------------------------------------------
\* The watch bookkeeping on its own: any sequence of _add_watch and
\* _remove_watch calls
\* ---------------------------------------------------------------------------
AddWatchCall(path) ==
    /\ Get(watched_dirs, Parent(normalize_path(path)), 0) < MaxRefs
    /\ Commit(add_watch(Win, path), Op("addWatch", normalize_path(path), <<>>))
    /\ UNCHANGED <<fs, fsOps, timers, rvVars, fnVars>>

RemoveWatchCall(path) ==
    /\ Commit(remove_watch(Win, path), Op("removeWatch", normalize_path(path), <<>>))
    /\ UNCHANGED <<fs, fsOps, timers, rvVars, fnVars>>

NextWatch ==
    \/ \E path \in RawPaths : AddWatchCall(path)
    \/ \E path \in RawPaths : RemoveWatchCall(path)

SpecWatch == Init /\ [][NextWatch]_vars

\* ---------------------------------------------------------------------------
\* Single-instance rendezvous
\* ---------------------------------------------------------------------------
\* QLocalServer.removeServer(SINGLE_INSTANCE_SERVER): the name is unlinked,
\* whoever registered it
remove_server(ep) == NoHost

\* QLocalServer.listen(SINGLE_INSTANCE_SERVER) by host h: fails when the name
\* is taken
server_listen(ep, lst, h) ==
    IF ep = NoHost
    THEN [endpoint |-> h, listening |-> lst \cup {h}]
    ELSE [endpoint |-> ep, listening |-> lst]

\* a constructor that does not remove the registration first
host_init_without_remove(ep, lst, h) == server_listen(ep, lst, h)

\* SingleInstanceHost.__init__
host_init(ep, lst, h) == server_listen(remove_server(ep), lst, h)

\* a filter that loses the first string of the payload
payload_paths_skipping(loaded) ==
    LET strs == IF loaded.ok /\ loaded.is_list
                THEN SelectSeq(loaded.items, LAMBDA tok : tok[1] = "str")
                ELSE <<>>
    IN IF Len(strs) > 1 THEN [k \in 1..(Len(strs) - 1) |-> strs[k + 1][2]]
       ELSE [k \in 1..Len(strs) |-> strs[k][2]]

\* the payload handling of SingleInstanceHost._read_socket: [] when loads
\* raises, the strings of a list, nothing for any other value
payload_paths(loaded) ==
    LET strs == IF loaded.ok /\ loaded.is_list
                THEN SelectSeq(loaded.items, LAMBDA tok : tok[1] = "str")
                ELSE <<>>
    IN [k \in 1..Len(strs) |-> strs[k][2]]

\* a handler that raises the notification whatever the list holds
read_socket_always_emits(c) ==
    IF c.buf = <<>> THEN [conn |-> c, emits |-> <<>>]
    ELSE LET paths == payload_paths(json_loads(c.buf))
         IN [conn |-> [c EXCEPT !.buf = <<>>], emits |-> <<paths>>]

\* SingleInstanceHost._read_socket on a connection: without bytes the
\* 200 ms wait fails and nothing is raised; readAll empties the buffer
read_socket(c) ==
    IF c.buf = <<>> THEN [conn |-> c, emits |-> <<>>]
    ELSE LET paths == payload_paths(json_loads(c.buf))
         IN [conn |-> [c EXCEPT !.buf = <<>>],
             emits |-> IF paths # <<>> THEN <<paths>> ELSE <<>>]

\* connection.disconnectFromServer(); connection.close()
close_connection(c) == [c EXCEPT !.buf = <<>>, !.state = "closed"]

\* the body of the loop of SingleInstanceHost._process_new_connection for
\* one pending connection: read, close, read, close
process_connection(c) ==
    LET r1 == read_socket(c)
        r2 == read_socket(close_connection(r1.conn))
    IN [conn |-> close_connection(r2.conn), emits |-> r1.emits \o r2.emits]

\* main(): cli_paths that exist
existing_paths(disk, args) ==
    SelectSeq(args, LAMBDA a : disk[normalize_path(a)] # NoStat)

\* forward_paths_to_primary: serialized
serialized_paths(paths) == [k \in 1..Len(paths) |-> PathStr(paths[k])]

\* a main() that forwards whatever the setting says
should_forward_always(sw, existing) == existing # <<>>

\* main(): open_same_window and existing_paths
should_forward(sw, existing) == sw /\ existing # <<>>

Live(p) == pc[p] \notin {"idle", "crashed", "exited"}
Reachable(ep) == ep # NoHost /\ ep \in listening /\ Live(ep[1])

\* the rendezvous leaves the window of the model alone
rvFrame == UNCHANGED <<fs, fsOps, winVars, timers, log, lastOp, recoveredFrom,
                       closedByUser, fnVars>>

\* a process of the application is started
Launch(p, args, sw) ==
    /\ rvFrame
    /\ pc[p] = "idle"
    /\ pc' = [pc EXCEPT ![p] = "main"]
    /\ argv' = [argv EXCEPT ![p] = args]
    /\ same_window' = [same_window EXCEPT ![p] = sw]
    /\ UNCHANGED <<forwarded, liveAtConnect, endpoint, listening, conn,
                   emitted, opened, reclaimed>>

\* forward_paths_to_primary up to waitForConnected
TryForward(p) ==
    /\ rvFrame
    /\ pc[p] = "main"
    /\ should_forward(same_window[p], existing_paths(fs, argv[p]))
    /\ IF Reachable(endpoint)
       THEN /\ conn' = [conn EXCEPT ![p] = [state |-> "pending", host |-> endpoint,
                                            buf |-> <<>>, arrived |-> <<>>]]
            /\ liveAtConnect' = [liveAtConnect EXCEPT ![p] = TRUE]
            /\ pc' = [pc EXCEPT ![p] = "connected"]
            /\ UNCHANGED forwarded
       ELSE /\ forwarded' = [forwarded EXCEPT ![p] = "refused"]
            /\ pc' = [pc EXCEPT ![p] = "window"]
            /\ UNCHANGED <<conn, liveAtConnect>>
    /\ UNCHANGED <<argv, same_window, endpoint, listening, emitted, opened,
                   reclaimed>>

\* main() does not call forward_paths_to_primary
SkipForward(p) ==
    /\ rvFrame
    /\ pc[p] = "main"
    /\ ~should_forward(same_window[p], existing_paths(fs, argv[p]))
    /\ pc' = [pc EXCEPT ![p] = "window"]
    /\ UNCHANGED <<argv, same_window, forwarded, liveAtConnect, endpoint,
                   listening, conn, emitted, opened, reclaimed>>

\* forward_paths_to_primary from socket.write on; written is FALSE when write
\* returns -1 or a call raises
SendPayload(p, written) ==
    /\ rvFrame
    /\ pc[p] = "connected"
    /\ LET serialized == serialized_paths(existing_paths(fs, argv[p])) IN
       IF written
       THEN /\ conn' = [conn EXCEPT ![p] =
                          IF @.state = "pending"
                          THEN [@ EXCEPT !.buf = json_dumps(serialized),
                                         !.arrived = serialized]
                          ELSE @]
            /\ forwarded' = [forwarded EXCEPT ![p] = "sent"]
            /\ pc' = [pc EXCEPT ![p] = "exited"]
       ELSE /\ forwarded' = [forwarded EXCEPT ![p] = "writeError"]
            /\ pc' = [pc EXCEPT ![p] = "window"]
            /\ UNCHANGED conn
    /\ UNCHANGED <<argv, same_window, liveAtConnect, endpoint, listening,
                   emitted, opened, reclaimed>>

\* MainWindow.__init__ constructs a SingleInstanceHost (it does so twice)
BuildHost(p) ==
    /\ rvFrame
    /\ pc[p] \in {"window", "host1"}
    /\ LET h == <<p, IF pc[p] = "window" THEN 1 ELSE 2>>
           r == host_init(endpoint, listening, h)
       IN /\ endpoint' = r.endpoint
          /\ listening' = r.listening
          /\ reclaimed' = IF endpoint # NoHost /\ pc[endpoint[1]] = "crashed"
                             /\ r.endpoint = h
                          THEN reclaimed \cup {p}
                          ELSE reclaimed
    /\ pc' = [pc EXCEPT ![p] = IF pc[p] = "window" THEN "host1" ELSE "opening"]
    /\ UNCHANGED <<argv, same_window, forwarded, liveAtConnect, conn, emitted,
                   opened>>

\* main() opens the existing command-line paths in its own window and enters
\* the event loop
OpenCliDocuments(p) ==
    /\ rvFrame
    /\ pc[p] = "opening"
    /\ opened' = [opened EXCEPT ![p] = existing_paths(fs, argv[p])]
    /\ pc' = [pc EXCEPT ![p] = "running"]
    /\ UNCHANGED <<argv, same_window, forwarded, liveAtConnect, endpoint,
                   listening, conn, emitted, reclaimed>>

\* SingleInstanceHost._process_new_connection of host h: every pending
\* connection of the host is read and closed
ServeConnections(h) ==
    /\ rvFrame
    /\ h \in listening
    /\ pc[h[1]] = "running"
    /\ \E c \in Procs : conn[c].state = "pending" /\ conn[c].host = h
    /\ conn' = [c \in Procs |->
                  IF conn[c].state = "pending" /\ conn[c].host = h
                  THEN process_connection(conn[c]).conn ELSE conn[c]]
    /\ emitted' = [c \in Procs |->
                     IF conn[c].state = "pending" /\ conn[c].host = h
                     THEN emitted[c] \o process_connection(conn[c]).emits
                     ELSE emitted[c]]
    /\ UNCHANGED <<pc, argv, same_window, forwarded, liveAtConnect, endpoint,
                   listening, opened, reclaimed>>

\* a running process dies without unbinding the name
Crash(p) ==
    /\ rvFrame
    /\ pc[p] = "running"
    /\ pc' = [pc EXCEPT ![p] = "crashed"]
    /\ UNCHANGED <<argv, same_window, forwarded, liveAtConnect, endpoint,
                   listening, conn, emitted, opened, reclaimed>>

NextRendezvous ==
    \/ \E p \in Procs, args \in ArgLists, sw \in BOOLEAN :
          Launch(p, args, sw)
    \/ \E p \in Procs : TryForward(p)
    \/ \E p \in Procs : SkipForward(p)
    \/ \E p \in Procs, written \in BOOLEAN : SendPayload(p, written)
    \/ \E p \in Procs : BuildHost(p)
    \/ \E p \in Procs : OpenCliDocuments(p)
    \/ \E p \in Procs, k \in 1..2 : ServeConnections(<<p, k>>)
    \/ \E p \in Procs : Crash(p)

SpecRendezvous == Init /\ [][NextRendezvous]_vars

\* ---------------------------------------------------------------------------
\* Functions of the program applied on their own to arguments drawn from
\* bounded sets
\* ---------------------------------------------------------------------------
\* the call returns: nothing but the returned value changes
Returns(value) ==
    /\ ~ret.done
    /\ ret' = [done |-> TRUE, value |-> value]
    /\ UNCHANGED <<call, fs, fsOps, winVars, timers, log, lastOp, recoveredFrom,
                   closedByUser, rvVars>>

\* values of the fields of a FileIdentity; 0 is what from_path stores for a
\* platform without inode numbers
Devices == {0, 1, 2}
Inodes == {0, 11, 12}
Sizes == {1000, 2000}
MtimesNs == {0, 1000000, 1000001}
Identities == [device : Devices, inode : Inodes, size : Sizes, mtime_ns : MtimesNs]

\* a.matches(b) for two identities
InitMatches ==
    /\ InitProgram
    /\ call \in [fn : {"matches"}, a : Identities, b : Identities]
    /\ ret = NoRet

ApplyMatches ==
    /\ call.fn = "matches"
    /\ Returns(matches(call.a, call.b))

NextMatches == ApplyMatches

SpecMatches == InitMatches /\ [][NextMatches]_vars

\* what a client of any kind can send: a number, bytes that are not UTF-8
NumTok == <<"num", "7">>
BadTok == <<"bad", "">>
PayloadTokens == {LB, RB, COMMA, StrTok("/docs/a.pdf"), NumTok, BadTok}

\* the payloads of at most MaxPayloadLen tokens, arrays within arrays left out
Payloads ==
    {t \in UNION {[1..n -> PayloadTokens] : n \in 0..MaxPayloadLen} :
        \A i \in 2..Len(t) : t[i] # LB}

\* the host serves a pending connection on which the payload has arrived
InitPayload ==
    /\ InitProgram
    /\ call \in [fn : {"process_connection"}, payload : Payloads]
    /\ ret = NoRet

ApplyProcessConnection ==
    /\ call.fn = "process_connection"
    /\ Returns(process_connection([state |-> "pending", host |-> NoHost,
                                    buf |-> call.payload,
                                    arrived |-> call.payload]))

NextPayload == ApplyProcessConnection

SpecPayload == InitPayload /\ [][NextPayload]_vars

\* the name of the rendezvous endpoint; a string is its sequence of characters
\* str.replace(old, new) for one-character old and new
str_replace(s, old, new) == [i \in 1..Len(s) |-> IF s[i] = old THEN new ELSE s[i]]

\* os.environ.get(name): <<>> stands for a variable that is unset or empty,
\* both of which `or` passes over
environ_get(environ, name) == environ[name]

\* user_token, from the environment of the process
user_token(environ) ==
    LET name == IF environ_get(environ, "USERNAME") # <<>>
                THEN environ_get(environ, "USERNAME")
                ELSE IF environ_get(environ, "USER") # <<>>
                THEN environ_get(environ, "USER")
                ELSE <<"d", "e", "f", "a", "u", "l", "t">>
    IN str_replace(str_replace(str_replace(name, "\\", "_"), "/", "_"), " ", "_")

\* SINGLE_INSTANCE_SERVER
SINGLE_INSTANCE_SERVER(environ) == <<"PdfVertViewSingleton_">> \o user_token(environ)

\* characters of account names, and the account names of at most MaxNameLen
\* characters
NameChars == {"a", "_", " ", "/", "\\"}
UserNames == UNION {[1..n -> NameChars] : n \in 1..MaxNameLen}

\* the environment of a session of the account: the platform sets USERNAME
\* (Windows) or USER (elsewhere)
Environ(account, variable) ==
    [v \in {"USERNAME", "USER"} |-> IF v = variable THEN account ELSE <<>>]

\* two sessions on one machine, each under an account
InitNaming ==
    /\ InitProgram
    /\ call \in [fn : {"server_name"}, variable : {"USERNAME", "USER"},
                 a : UserNames, b : UserNames]
    /\ ret = NoRet

ApplyServerName ==
    /\ call.fn = "server_name"
    /\ Returns(<<SINGLE_INSTANCE_SERVER(Environ(call.a, call.variable)),
                 SINGLE_INSTANCE_SERVER(Environ(call.b, call.variable))>>)

NextNaming == ApplyServerName

SpecNaming == InitNaming /\ [][NextNaming]_vars

\* the scan for the file of the tracked document /docs/a.pdf, which is gone
\* from its path. StatGrown: the file of StatA after it was written to again
\* (same device and inode, other size and time).
StatGrown == [st_dev |-> 1, st_ino |-> 11, st_size |-> 2000, st_mtime_ns |-> 9000000]
ScanStats == {NoStat, StatA, StatB, StatC, StatGrown}

\* what the directory can hold when the scan runs
ScanDisks ==
    {[p \in Paths |-> CASE p = "/docs/B.PDF" -> b
                        [] p = "/docs/c.pdf" -> c
                        [] p = "/docs/n.txt" -> StatB
                        [] OTHER -> NoStat] : b \in ScanStats, c \in ScanStats}

InitScan ==
    /\ InitProgram
    /\ call \in UNION {[fn : {"find_identity_match"}, disk : {d},
                        directory : {"/docs"},
                        identity : {from_path([d EXCEPT !["/docs/a.pdf"] = StatA],
                                              "/docs/a.pdf")},
                        exclude : {"/docs/a.pdf"},
                        listing : Listings(d, "/docs")] : d \in ScanDisks}
    /\ ret = NoRet

ApplyFindIdentityMatch ==
    /\ call.fn = "find_identity_match"
    /\ Returns(find_identity_match(call.disk, call.directory, call.identity,
                                   call.exclude, call.listing))

NextScan == ApplyFindIdentityMatch

SpecScan == InitScan /\ [][NextScan]_vars

\* the scan for the file of any tracked document of /docs: the open dialog
\* offers "All files (*)" and the command line takes any existing path, so
\* the tracked path need not end in .pdf
TrackedPaths == {"/docs/a.pdf", "/docs/B.PDF", "/docs/n.txt"}
TrackedDisks(tracked) ==
    {d \in [Paths -> {NoStat, StatA, StatC}] :
        /\ d[tracked] = NoStat
        /\ \A p \in Paths : Parent(p) # "/docs" => d[p] = NoStat}

InitTracked ==
    /\ InitProgram
    /\ \E t \in TrackedPaths : \E d \in TrackedDisks(t) :
          call \in [fn : {"find_identity_match"}, disk : {d},
                    directory : {Parent(t)},
                    identity : {from_path([d EXCEPT ![t] = StatA], t)},
                    exclude : {t},
                    listing : Listings(d, Parent(t))]
    /\ ret = NoRet

SpecTracked == InitTracked /\ [][NextScan]_vars

\* ---------------------------------------------------------------------------
\* Properties of the tracked-document table and of rename recovery
\* ---------------------------------------------------------------------------
LogHas(l, kind) == \E i \in 1..Len(l) : l[i][1] = kind
LogCount(l, kind) == Cardinality({i \in 1..Len(l) : l[i][1] = kind})
Scanned(l, path, outcome) ==
    \E i \in 1..Len(l) : l[i][1] = "scan" /\ l[i][2] = path /\ l[i][3] = outcome
Renamed(l, old, new) ==
    \E i \in 1..Len(l) : l[i][1] = "renamed" /\ l[i][2] = old /\ l[i][3] = new
ClosedIn(l, h) == \E i \in 1..Len(l) : l[i][1] = "close" /\ l[i][2] = h
OpenedIn(l, path) == \E i \in 1..Len(l) : l[i][1] = "open" /\ l[i][3] = path

Handles == 1..(nextHandle - 1)
InTable(h) == \E p \in DOMAIN documents : documents[p] = h
AllIn(paths, S) == \A i \in 1..Len(paths) : paths[i] \in S

TableUnchanged ==
    UNCHANGED <<documents, docOrder, tab_items, doc_identities, watched_files,
                watched_dirs, watcher, closeCount, nextHandle>>

\* C1: when the callback scheduled for a missing tracked path P fires, its
\* directory listing succeeds and a .pdf file Q of the same directory has the
\* stored size and an mtime within 1 ms of the stored one, then afterwards Q
\* is tracked and watched and P is neither tracked nor watched.
C1_RenameRecovered ==
    [][\A P \in DOMAIN documents : \A Q \in Paths :
         ( /\ lastOp'.op = "timer"
           /\ lastOp'.paths = <<P>>
           /\ Scanned(log', P, "listed")
           /\ fs[P] = NoStat
           /\ P \in DOMAIN doc_identities
           /\ Q # P
           /\ Parent(Q) = Parent(P)
           /\ SuffixLower(Q) = ".pdf"
           /\ fs[Q] # NoStat
           /\ fs[Q].st_size = doc_identities[P].size
           /\ Abs(fs[Q].st_mtime_ns - doc_identities[P].mtime_ns) <= TOLERANCE_NS )
         => /\ Q \in DOMAIN documents'
            /\ P \notin DOMAIN documents'
            /\ P \notin watched_files'
            /\ Q \in watched_files']_vars

\* C2: a recovery that re-associates a document from old to new (new not
\* tracked before, tracked after) keeps the handle: the handle under new is
\* the one that was under old, it is not closed and the file is not opened.
C2_SameHandleNoReopen ==
    [][\A old \in DOMAIN documents : \A new \in Paths \ DOMAIN documents :
         ( /\ lastOp'.op = "timer"
           /\ Renamed(log', old, new)
           /\ new \in DOMAIN documents' )
         => /\ documents'[new] = documents[old]
            /\ ~ClosedIn(log', documents[old])
            /\ ~OpenedIn(log', new)]_vars

\* C3: every handle that has left the table was closed exactly once, no
\* handle in the table was closed, and a user close removes the document from
\* the table with exactly one close call.
C3_ClosedExactlyOnce ==
    /\ \A h \in Handles :
          Get(closeCount, h, 0) = IF InTable(h) THEN 0 ELSE 1
    /\ lastOp.op = "close" =>
          /\ lastOp.path \notin DOMAIN documents
          /\ LogCount(log, "close") = 1

\* the user has just closed a document whose file is missing and was not
\* recovered
C3_Witness ==
    /\ lastOp.op = "close"
    /\ fs[lastOp.path] = NoStat
    /\ lastOp.path \notin recoveredFrom
    /\ lastOp.path \in closedByUser
    /\ \E h \in Handles : ClosedIn(log, h) /\ closeCount[h] = 1

NoCandidate(P) ==
    ~\E Q \in Paths \ {P} :
        /\ Parent(Q) = Parent(P)
        /\ SuffixLower(Q) = ".pdf"
        /\ fs[Q] # NoStat
        /\ matches(doc_identities[P], from_path(fs, Q))

InSeq(x, s) == \E i \in 1..Len(s) : s[i] = x

\* C18: when the callback scheduled for a tracked path P fires and no other
\* .pdf file of P's directory matches the identity stored for P, P stays in
\* the table with the same handle (not closed), the same stored identity and
\* its file and directory watches, nothing is re-keyed away from P and the
\* callback schedules nothing; a directory is scanned only by a callback, and
\* a callback is scheduled only by a watch event.
C18_UnresolvedStays ==
    [][/\ \A P \in DOMAIN documents :
            ( /\ lastOp'.op = "timer"
              /\ InSeq(P, lastOp'.paths)
              /\ P \in DOMAIN doc_identities
              /\ NoCandidate(P) )
            => /\ P \in DOMAIN documents'
               /\ documents'[P] = documents[P]
               /\ Get(closeCount', documents[P], 0) = 0
               /\ P \in DOMAIN doc_identities'
               /\ doc_identities'[P] = doc_identities[P]
               /\ (P \in watched_files') = (P \in watched_files)
               /\ (P \in watcher') = (P \in watcher)
               /\ (Parent(P) \in DOMAIN watched_dirs')
                     = (Parent(P) \in DOMAIN watched_dirs)
               /\ (Parent(P) \in watcher') = (Parent(P) \in watcher)
               /\ ~\E i \in 1..Len(log') :
                      log'[i][1] = "renamed" /\ log'[i][2] = P
               /\ timers' = Tail(timers)
       /\ LogHas(log', "scan") => lastOp'.op = "timer"
       /\ Len(timers') > Len(timers)
            => lastOp'.op \in {"fileChanged", "directoryChanged"}]_vars

\* a callback fired for a tracked document whose file is gone, the listing
\* held another .pdf file that does not match, and the document stayed
C18_Witness ==
    /\ lastOp.op = "timer"
    /\ \E P \in DOMAIN documents :
          /\ InSeq(P, lastOp.paths)
          /\ Scanned(log, P, "listed")
          /\ fs[P] = NoStat
          /\ P \in DOMAIN doc_identities
          /\ NoCandidate(P)
          /\ \E Q \in Paths \ {P} :
                /\ Parent(Q) = Parent(P)
                /\ SuffixLower(Q) = ".pdf"
                /\ fs[Q] # NoStat
          /\ ~LogHas(log, "renamed")

\* the candidates of a scan: the other .pdf entries of the listing
ScanCandidates ==
    IF call.listing = NoListing THEN {}
    ELSE {Q \in Paths \ {call.exclude} :
            /\ InSeq(Q, call.listing)
            /\ Parent(Q) = call.directory
            /\ SuffixLower(Q) = ".pdf"
            /\ call.disk[Q] # NoStat}

\* the inode+device rule and the size+mtime rule for candidate Q
StrongMatch(Q) ==
    /\ call.identity.inode # 0
    /\ call.disk[Q].st_ino # 0
    /\ call.identity.inode = call.disk[Q].st_ino
    /\ call.identity.device = call.disk[Q].st_dev
WeakMatch(Q) ==
    /\ call.identity.size = call.disk[Q].st_size
    /\ Abs(call.identity.mtime_ns - call.disk[Q].st_mtime_ns) <= TOLERANCE_NS

\* C20: whatever the order of the listing, when some candidate matches the
\* stored identity by inode and device the scan returns a candidate that
\* does; a candidate that matches by size and mtime only is returned only
\* when no candidate matches by inode and device.
C20_StrongMatchPreferred ==
    (call.fn = "find_identity_match" /\ ret.done) =>
       /\ (\E Q \in ScanCandidates : StrongMatch(Q))
            => ret.value \in ScanCandidates /\ StrongMatch(ret.value)
       /\ (ret.value \in ScanCandidates /\ ~StrongMatch(ret.value))
            => /\ WeakMatch(ret.value)
               /\ ~\E Q \in ScanCandidates : StrongMatch(Q)

\* C21: when more than one candidate of the listing matches the stored
\* identity by inode and device, the scan returns no candidate, so that the
\* document is not re-keyed to either of them.
C21_AmbiguousNotGuessed ==
    (call.fn = "find_identity_match" /\ ret.done) =>
       (Cardinality({Q \in ScanCandidates : StrongMatch(Q)}) > 1
          => ret.value = NoPath)

\* the stored identity of P is the one a fresh stat gives, no callback is
\* scheduled for P, and the table and the watches are as they were
RefreshedInPlace(P) ==
    /\ P \in DOMAIN doc_identities'
    /\ doc_identities'[P] = from_path(fs, P)
    /\ timers' # timers => ~InSeq(P, timers'[Len(timers')])
    /\ UNCHANGED <<documents, docOrder, tab_items, watched_files, watched_dirs,
                   watcher, closeCount, nextHandle>>

\* C22: a file-changed signal for a tracked path that exists, and a
\* directory-changed signal for the directory of a tracked path that exists,
\* each refresh the stored identity of the document from a fresh stat,
\* schedule no callback for it and leave the table and the watches alone.
C22_PresentFileRefreshed ==
    [][\A P \in DOMAIN documents :
         /\ (lastOp'.op = "fileChanged" /\ lastOp'.path = P /\ fs[P] # NoStat)
               => RefreshedInPlace(P)
         /\ (DirectoryChanged(Parent(P)) /\ fs[P] # NoStat)
               => RefreshedInPlace(P)]_vars

\* C23: when a callback re-associates the document of old with a path new
\* that is tracked already, the entry of old leaves the table, its handle is
\* closed (once) and its file watch released, the entry of new keeps its
\* handle, its stored identity and its watches, and the table has exactly
\* one entry less.
C23_CollisionDropsOld ==
    [][\A old \in DOMAIN documents : \A new \in DOMAIN documents :
         ( /\ lastOp'.op = "timer"
           /\ LogCount(log', "renamed") = 1
           /\ Renamed(log', old, new) )
         => /\ old \notin DOMAIN documents'
            /\ old \notin DOMAIN tab_items'
            /\ ClosedIn(log', documents[old])
            /\ Get(closeCount', documents[old], 0) = 1
            /\ old \notin watched_files'
            /\ old \notin watcher'
            /\ new \in DOMAIN documents'
            /\ documents'[new] = documents[new]
            /\ Get(closeCount', documents[new], 0) = 0
            /\ Get(doc_identities', new, NoIdentity)
                  = Get(doc_identities, new, NoIdentity)
            /\ new \in watched_files'
            /\ new \in watcher'
            /\ Parent(new) \in watcher'
            /\ Cardinality(DOMAIN documents')
                  = Cardinality(DOMAIN documents) - 1]_vars

\* a callback has just re-associated a document with a path that was tracked
\* already: nothing was opened, one handle was closed
C23_Witness ==
    /\ lastOp.op = "timer"
    /\ \E old \in Paths : \E new \in DOMAIN documents :
          /\ Renamed(log, old, new)
          /\ old \notin DOMAIN documents
          /\ ~LogHas(log, "open")
          /\ LogCount(log, "close") = 1

\* C24: a callback whose every directory listing raises OSError does nothing
\* but try to list: the table, the stored identities and the watches are
\* exactly as before, nothing is opened, closed, registered or re-keyed, and
\* nothing is scheduled.
C24_ListingFailureAborts ==
    [][( /\ lastOp'.op = "timer"
         /\ LogHas(log', "scan")
         /\ \A i \in 1..Len(log') : log'[i][1] = "scan" => log'[i][3] = "OSError" )
         => /\ TableUnchanged
            /\ tab_recency' = tab_recency
            /\ \A i \in 1..Len(log') : log'[i][1] = "scan"
            /\ timers' = Tail(timers)]_vars

\* the listing failed for a tracked document whose file is gone while a
\* matching file was in the directory, and the document stayed where it was
C24_Witness ==
    /\ lastOp.op = "timer"
    /\ \E P \in DOMAIN documents :
          /\ Scanned(log, P, "OSError")
          /\ fs[P] = NoStat
          /\ P \in DOMAIN doc_identities
          /\ ~NoCandidate(P)
    /\ ~LogHas(log, "renamed")

\* C25: an open that fails (the file is absent, fitz.open raises, the
\* password is not given or is wrong) adds no entry to the table, registers
\* no file or directory watch, changes no count and stores no identity.
C25_FailedOpenAddsNothing ==
    [][\A raw \in UserPaths : \A opens \in BOOLEAN :
         ( /\ lastOp'.op = "open"
           /\ normalize_path(raw) \notin DOMAIN documents
           /\ ~opens \/ fs[normalize_path(raw)] = NoStat
           /\ Open(raw, opens) )
         => /\ TableUnchanged
            /\ tab_recency' = tab_recency
            /\ log' = <<>>]_vars

\* an open has just failed in a window that never tracked a document
C25_Witness ==
    /\ lastOp.op = "open"
    /\ log = <<>>
    /\ documents = EmptyDict
    /\ nextHandle = 1
    /\ watched_files = {}
    /\ watched_dirs = EmptyDict

InSomeTimer(P) == \E i \in 1..Len(timers) : InSeq(P, timers[i])

\* a callback is pending for the tracked document P, whose file is gone,
\* and a file of its directory matches its stored identity
RetryPending(P) ==
    /\ P \in DOMAIN documents
    /\ P \in DOMAIN doc_identities
    /\ fs[P] = NoStat
    /\ InSomeTimer(P)
    /\ ~NoCandidate(P)

\* the document of P was re-keyed to another path, or a callback for P has
\* run without a document being opened (the listing or the open failed, or
\* nothing matched any more) and P is tracked as before
RetryEnded(P) ==
    \/ P \in recoveredFrom
    \/ /\ P \in DOMAIN documents
       /\ lastOp.op = "timer"
       /\ InSeq(P, lastOp.paths)
       /\ ~LogHas(log, "open")

\* C26: a directory-changed signal for the directory of an unresolved
\* document schedules a new attempt for it, and once an attempt is pending
\* while a matching file is in the directory the document is eventually
\* re-keyed to a matching file (or, the listing or the open having failed,
\* is unresolved again under its old path); callbacks are scheduled by watch
\* signals only.
C26_RetriedOnNewEvent ==
    /\ [][/\ \A P \in DOMAIN documents :
              (DirectoryChanged(Parent(P)) /\ fs[P] = NoStat)
                => /\ timers' # timers
                   /\ InSeq(P, timers'[Len(timers')])
          /\ Len(timers') > Len(timers)
                => lastOp'.op \in {"fileChanged", "directoryChanged"}]_vars
    /\ \A P \in WatchablePaths : RetryPending(P) ~> RetryEnded(P)

\* the entries of the listing other than the tracked path itself
OtherEntries ==
    IF call.listing = NoListing THEN {}
    ELSE {Q \in Paths \ {call.exclude} :
            /\ InSeq(Q, call.listing)
            /\ Parent(Q) = call.directory
            /\ call.disk[Q] # NoStat}

\* Q has the extension of the tracked file (letter case aside)
SameExtension(Q) == SuffixLower(Q) = SuffixLower(call.exclude)

\* C27: the scan returns only an entry, other than the tracked path, that
\* has the tracked file's own extension, and it returns one whenever such an
\* entry matches the stored identity.
C27_CandidatesShareExtension ==
    (call.fn = "find_identity_match" /\ ret.done) =>
       /\ ret.value # NoPath
            => ret.value \in OtherEntries /\ SameExtension(ret.value)
       /\ (\E Q \in OtherEntries :
              /\ SameExtension(Q)
              /\ matches(call.identity, from_path(call.disk, Q)))
            => ret.value # NoPath

\* C28: between handlers the document table, the tab-item map and the set of
\* watched files have the same keys, and the stored identities and the
\* recency map have keys of the document table only.
C28_BookkeepingConsistent ==
    /\ DOMAIN tab_items = DOMAIN documents
    /\ watched_files = DOMAIN documents
    /\ DOMAIN doc_identities \subseteq DOMAIN documents
    /\ tab_recency \subseteq DOMAIN documents

\* documents are tracked after one document was re-keyed by a recovery and
\* another was closed by the user
C28_Witness ==
    /\ documents # EmptyDict
    /\ recoveredFrom # {}
    /\ closedByUser # {}
    /\ watched_files = DOMAIN documents

\* C29: a callback that fires for a tracked path whose file exists (again)
\* does not re-key the document: it stays in the table under that path with
\* its handle, whatever else in the directory matches its stored identity.
C29_PresentFileNotRekeyed ==
    [][\A P \in DOMAIN documents :
         ( /\ lastOp'.op = "timer"
           /\ InSeq(P, lastOp'.paths)
           /\ fs[P] # NoStat )
         => /\ P \in DOMAIN documents'
            /\ documents'[P] = documents[P]
            /\ ~\E i \in 1..Len(log') :
                   log'[i][1] = "renamed" /\ log'[i][2] = P]_vars

\* C30: a callback that re-associates the document of old with a path new
\* that was not tracked leaves as many documents tracked as before, whether
\* or not the file of new opens, and the document is tracked under old or
\* under new afterwards.
C30_RecoveryKeepsDocument ==
    [][\A old \in DOMAIN documents : \A new \in Paths \ DOMAIN documents :
         ( /\ lastOp'.op = "timer"
           /\ LogCount(log', "renamed") = 1
           /\ Renamed(log', old, new) )
         => /\ Cardinality(DOMAIN documents') = Cardinality(DOMAIN documents)
            /\ old \in DOMAIN documents' \/ new \in DOMAIN documents']_vars

\* ---------------------------------------------------------------------------
\* Properties of the watch bookkeeping
\* ---------------------------------------------------------------------------
Called(l, request, path) ==
    \E i \in 1..Len(l) : l[i][1] = request /\ l[i][2] = path

\* C10: a directory is registered with the native watcher exactly when its
\* count is at least 1, no stored count is below 1, the native registration
\* of a directory is requested only when its count goes from 0 to 1 and a
\* registered directory is dropped only when its count goes from 1 to 0.
C10_DirWatchIffCounted ==
    /\ [](\A d \in Dirs :
            /\ d \in watcher <=> Get(watched_dirs, d, 0) >= 1
            /\ d \in DOMAIN watched_dirs => watched_dirs[d] >= 1)
    /\ [][\A d \in Dirs :
            /\ Called(log', "addPath", d)
                 => Get(watched_dirs, d, 0) = 0 /\ Get(watched_dirs', d, 0) = 1
            /\ (d \in watcher /\ d \notin watcher')
                 => Get(watched_dirs, d, 0) = 1 /\ d \notin DOMAIN watched_dirs'
            /\ (d \notin watcher /\ d \in watcher')
                 => Get(watched_dirs, d, 0) = 0 /\ Get(watched_dirs', d, 0) = 1]_vars

\* the last watch of a directory that held several was just removed
C10_Witness ==
    /\ lastOp.op = "removeWatch"
    /\ Called(log, "removePath", "/docs")
    /\ "/docs" \notin watcher
    /\ "/docs" \notin DOMAIN watched_dirs
    /\ Get(watched_dirs, "/tmp", 0) >= 2
    /\ "/tmp" \in watcher

\* C11: an _add_watch call that directly follows an _add_watch call for the
\* same file path requests no native registration, neither of the file nor
\* of its directory, and leaves the native watcher as it was.
C11_SecondAddRegistersNothing ==
    [][( /\ lastOp.op = "addWatch"
         /\ lastOp'.op = "addWatch"
         /\ lastOp'.path = lastOp.path )
       => /\ ~LogHas(log', "addPath")
          /\ watcher' = watcher]_vars

\* the same file was added twice in a row, the second time under another
\* spelling of its path or the same one
C11_Witness ==
    /\ lastOp.op = "addWatch"
    /\ log = <<>>
    /\ watched_files = {lastOp.path}
    /\ watched_dirs = (Parent(lastOp.path) :> 2)
    /\ watcher = {lastOp.path, Parent(lastOp.path)}

\* C12: an _add_watch call for a file path that is already watched leaves the
\* count of the parent directory as it was.
C12_SecondAddKeepsCount ==
    [][( /\ lastOp'.op = "addWatch"
         /\ lastOp'.path \in watched_files )
       => Get(watched_dirs', Parent(lastOp'.path), 0)
             = Get(watched_dirs, Parent(lastOp'.path), 0)]_vars

\* C13: a _remove_watch call for a path that is not in the watched-file set
\* changes neither that set, nor a directory count, nor the native watcher,
\* and no stored count is negative.
C13_RemoveUnwatchedIsNoOp ==
    /\ [](\A d \in DOMAIN watched_dirs : watched_dirs[d] >= 0)
    /\ [][( /\ lastOp'.op = "removeWatch"
            /\ lastOp'.path \notin watched_files )
          => UNCHANGED <<watched_files, watched_dirs, watcher>>]_vars

C15_MatchesIsTheTwoBranchRule ==
    (call.fn = "matches" /\ ret.done) =>
       (ret.value <=>
          \/ /\ call.a.inode # 0
             /\ call.a.device # 0
             /\ call.a.inode = call.b.inode
             /\ call.a.device = call.b.device
          \/ /\ call.a.size = call.b.size
             /\ Abs(call.a.mtime_ns - call.b.mtime_ns) <= 1000000)

\* C16 as stated: two identities with the same device and the same inode
\* match, whatever their sizes and modification times.
C16_SameFileMatches ==
    (call.fn = "matches" /\ ret.done) =>
       ((call.a.device = call.b.device /\ call.a.inode = call.b.inode)
           => ret.value)

\* C16 amended: two identities with the same device and the same non-zero
\* inode match, whatever their sizes and modification times.
C16_SameInodeMatches ==
    (call.fn = "matches" /\ ret.done) =>
       (( /\ call.a.device = call.b.device
          /\ call.a.inode = call.b.inode
          /\ call.a.inode # 0 )
           => ret.value)

\* two identities of one file whose size and modification time both changed
\* were compared
C16_Witness ==
    /\ call.fn = "matches"
    /\ ret.done
    /\ ret.value
    /\ call.a.device = call.b.device
    /\ call.a.inode = call.b.inode
    /\ call.a.inode # 0
    /\ call.a.device # 0
    /\ call.a.size # call.b.size
    /\ Abs(call.a.mtime_ns - call.b.mtime_ns) > TOLERANCE_NS

\* ---------------------------------------------------------------------------
\* Properties of the rendezvous
\* ---------------------------------------------------------------------------
HasListeningHost(p) == \E k \in 1..2 : <<p, k>> \in listening
Existing(p) == existing_paths(fs, argv[p])
Undecided(p) == pc[p] \in {"idle", "main", "connected"}
BecamePrimary(p) == pc[p] \in {"window", "host1", "opening", "running", "crashed"}

\* C6: a live process that holds the name keeps it while it lives, whatever
\* other processes do, and at most one live process has a listening server.
C6_SinglePrimary ==
    /\ [](Cardinality({p \in Procs : Live(p) /\ HasListeningHost(p)}) <= 1)
    /\ [][\A p \in Procs :
            ( /\ endpoint # NoHost
              /\ endpoint[1] = p
              /\ endpoint \in listening
              /\ Live(p)
              /\ pc'[p] = pc[p] )
            => endpoint'[1] = p]_vars

C17_MalformedPayloadDiscarded ==
    (call.fn = "process_connection" /\ ret.done) =>
       LET loaded == json_loads(call.payload)
           emits == ret.value.emits
           strings == SelectSeq(call.payload, LAMBDA tok : tok[1] = "str")
       IN /\ ret.value.conn.state = "closed"
          /\ ret.value.conn.buf = <<>>
          /\ (~loaded.ok \/ ~loaded.is_list) => emits = <<>>
          /\ Len(emits) <= 1
          /\ \A i \in 1..Len(emits) :
                /\ emits[i] # <<>>
                /\ emits[i] = [k \in 1..Len(strings) |-> strings[k][2]]

\* a payload that is not JSON was discarded and its connection closed, and
\* so was one that is a JSON string rather than an array
C17_Witness ==
    /\ call.fn = "process_connection"
    /\ ret.done
    /\ \/ call.payload = <<LB, StrTok("/docs/a.pdf"), COMMA, BadTok, RB>>
       \/ call.payload = <<StrTok("/docs/a.pdf")>>
    /\ ret.value.emits = <<>>
    /\ ret.value.conn.state = "closed"

\* C19: the endpoint name is a function of the account name that is one to
\* one: the sessions of one account get the same endpoint name, the sessions
\* of two different accounts get different endpoint names.
C19_EndpointNameInjective ==
    (call.fn = "server_name" /\ ret.done) =>
       /\ call.a = call.b => ret.value[1] = ret.value[2]
       /\ call.a # call.b => ret.value[1] # ret.value[2]

\* C8 as stated: a process launched with file arguments that takes main()'s
\* decision while a live primary holds the name connects to that primary
\* instead of building a window of its own.
C8_ArgumentsAreForwarded ==
    [][\A p \in Procs :
         ( /\ pc[p] = "main"
           /\ pc'[p] # "main"
           /\ argv[p] # <<>>
           /\ Reachable(endpoint) )
         => pc'[p] = "connected"]_vars

\* C8 amended: a process forwards and exits only when the setting is on and
\* some argument names an existing file, and then without binding the name
\* or opening a document; with the setting off, without an existing file
\* argument, or after a refused connection or a failed write it builds its
\* window, binds the name and opens the existing arguments itself; a refused
\* connection means no live server held the name.
C8_ForwardOrBecomePrimary ==
    \A p \in Procs :
       /\ pc[p] = "exited"
             => /\ same_window[p]
                /\ Existing(p) # <<>>
                /\ forwarded[p] = "sent"
                /\ liveAtConnect[p]
                /\ ~HasListeningHost(p)
                /\ endpoint[1] # p
                /\ opened[p] = <<>>
       /\ BecamePrimary(p)
             => /\ forwarded[p] # "sent"
                /\ (same_window[p] /\ Existing(p) # <<>>)
                      <=> forwarded[p] \in {"refused", "writeError"}
                /\ forwarded[p] = "refused" => ~liveAtConnect[p]
                /\ forwarded[p] = "writeError" => liveAtConnect[p]
       /\ pc[p] \in {"running", "crashed"}
             => /\ <<p, 2>> \in listening
                /\ opened[p] = Existing(p)

\* one process forwarded to a primary that itself had found nobody to forward
\* to, another became primary because its setting is off
C8_Witness ==
    \E p \in Procs, q \in Procs, r \in Procs :
       /\ pc[p] = "exited"
       /\ conn[p].host[1] = q
       /\ forwarded[q] = "refused"
       /\ opened[q] # <<>>
       /\ pc[r] = "running"
       /\ ~same_window[r]
       /\ opened[r] # <<>>

\* C9: a host constructed while the name is registered to a crashed process
\* takes the name and listens, and a secondary that connects is connected to
\* the host that holds the name, never to a crashed process.
C9_StaleEndpointReclaimed ==
    [][\A p \in Procs :
         /\ ( /\ pc[p] \in {"window", "host1"}
              /\ pc'[p] \in {"host1", "opening"}
              /\ pc'[p] # pc[p]
              /\ endpoint # NoHost
              /\ pc[endpoint[1]] = "crashed" )
            => /\ endpoint'[1] = p
               /\ endpoint' \in listening'
         /\ (pc[p] = "main" /\ pc'[p] = "connected")
            => /\ conn'[p].host = endpoint
               /\ pc[endpoint[1]] # "crashed"]_vars

\* a process took the name over from a crashed one and a later secondary
\* reached it
C9_Witness ==
    \E r \in reclaimed, q \in Procs :
       /\ endpoint[1] = r
       /\ Live(r)
       /\ q # r
       /\ conn[q].state # "none"
       /\ conn[q].host = endpoint
       /\ \E p \in Procs : pc[p] = "crashed"

====
